---- MODULE Spec2Model ----
(***************************************************************************)
(* The derived-metrics pipeline of process_data.py (get_data and the       *)
(* __main__ block that exports its result) as a state machine over one     *)
(* in-memory table.                                                        *)
(*                                                                         *)
(* Numbers.  Every numeric cell is an exact rational [na, n, d] in lowest  *)
(* terms (d > 0); na marks pandas' missing value (NaN / NaT / pd.NA).      *)
(* Dates are whole days relative to the day the first run starts, so       *)
(* (current_date - date).days is a difference of two integers.  The        *)
(* binary64 arithmetic of the program is modelled by exact arithmetic; the *)
(* one place where the two can part, a composite score that lies exactly   *)
(* half-way between two tenths, is a choice of either neighbour.           *)
(***************************************************************************)
EXTENDS Integers, Sequences, FiniteSets, TLC

VARIABLES
    csv,           \* the donor export: [cols, rows] of raw text cells
    file_exists,   \* whether the export is in place as task_1.csv
    pc,            \* position of the run inside __main__ / get_data
    df,            \* the DataFrame get_data works on
    current_date,  \* the value of pd.Timestamp.now() captured at line 71
    clock,         \* the wall clock, in days
    raised,        \* the exception get_data raised to its caller, or "none"
    out_file       \* task_1_processed_v2.csv, as last written by to_csv

vars == <<csv, file_exists, pc, df, current_date, clock, raised, out_file>>

----------------------------------------------------------------------------
(* Bounds of the model. *)

MaxRows == 2
MaxClock == 1

----------------------------------------------------------------------------
(* Exact rationals and missing values. *)

Abs(x) == IF x < 0 THEN -x ELSE x

RECURSIVE GCD(_, _)
GCD(a, b) == IF b = 0 THEN a ELSE GCD(b, a % b)

NA == [na |-> TRUE, n |-> 0, d |-> 1]

Rat(n, d) ==
    LET g == GCD(Abs(n), d)
    IN  [na |-> FALSE, n |-> n \div g, d |-> d \div g]

Num(v) == [na |-> FALSE, n |-> v, d |-> 1]

RLess(a, b) == a.n * b.d < b.n * a.d
RLeq(a, b) == a.n * b.d <= b.n * a.d
RMax(a, b) == IF RLess(a, b) THEN b ELSE a
RMin(a, b) == IF RLess(b, a) THEN b ELSE a

\* Series.clip(lower, upper)
Clip(x, lo, hi) == RMin(RMax(x, lo), hi)

\* A float cast to Int64 keeps the integer part (numpy truncates toward zero).
Trunc(n, d) == IF n >= 0 THEN n \div d ELSE -((-n) \div d)

----------------------------------------------------------------------------
(* Text. A string is a sequence of one-character strings. *)

UpperCase == <<"A","B","C","D","E","F","G","H","I","J","K","L","M",
               "N","O","P","Q","R","S","T","U","V","W","X","Y","Z">>
LowerCase == <<"a","b","c","d","e","f","g","h","i","j","k","l","m",
               "n","o","p","q","r","s","t","u","v","w","x","y","z">>

LowerChar(ch) ==
    IF \E i \in 1..Len(UpperCase) : UpperCase[i] = ch
    THEN LowerCase[CHOOSE i \in 1..Len(UpperCase) : UpperCase[i] = ch]
    ELSE ch

\* str.lower()
StrLower(s) == [i \in 1..Len(s) |-> LowerChar(s[i])]

\* the characters str.strip() removes from both ends
Whitespace == {" ", "\t"}

\* str.strip()
StrStrip(s) ==
    LET keep == {i \in 1..Len(s) : s[i] \notin Whitespace}
    IN  IF keep = {} THEN <<>>
        ELSE SubSeq(s, CHOOSE i \in keep : \A j \in keep : i <= j,
                       CHOOSE i \in keep : \A j \in keep : j <= i)

\* str.replace(old, new, regex=False) for a one-character old and new
StrReplace(s, old, new) ==
    [i \in 1..Len(s) |-> IF s[i] = old THEN new ELSE s[i]]

\* the em-dash U+2014 and the en-dash U+2013, each one character of a string
EmDash == "U+2014"
EnDash == "U+2013"

\* a plain substring test: what str.contains does for one alternative
Contains(s, k) ==
    \E i \in 0..(Len(s) - Len(k)) : SubSeq(s, i + 1, i + Len(k)) = k

----------------------------------------------------------------------------
(* The DataFrame: an ordered list of column names and one function from    *)
(* column name to cell per row.                                            *)

EmptyFrame == [cols |-> <<>>, rows |-> <<>>]

HasCol(t, c) == \E i \in 1..Len(t.cols) : t.cols[i] = c

RowIds(t) == 1..Len(t.rows)

\* df[c] = values, one per row: a new column is appended, an existing one
\* is overwritten in place.
SetCol(t, c, values) ==
    [cols |-> IF HasCol(t, c) THEN t.cols ELSE Append(t.cols, c),
     rows |-> [i \in RowIds(t) |->
                 [k \in DOMAIN t.rows[i] \cup {c} |->
                     IF k = c THEN values[i] ELSE t.rows[i][k]]]]

\* df.drop(c, axis=1, inplace=True)
DropCol(t, c) ==
    [cols |-> SelectSeq(t.cols, LAMBDA k : k # c),
     rows |-> [i \in 1..Len(t.rows) |->
                 [k \in DOMAIN t.rows[i] \ {c} |-> t.rows[i][k]]]]

----------------------------------------------------------------------------
(* More exact arithmetic: sums and products that keep denominators small. *)

RAdd(a, b) ==
    LET l == (a.d \div GCD(a.d, b.d)) * b.d
    IN  Rat(a.n * (l \div a.d) + b.n * (l \div b.d), l)

RNeg(a) == [a EXCEPT !.n = -a.n]
RSub(a, b) == RAdd(a, RNeg(b))
RMul(a, b) ==
    LET g1 == GCD(Abs(a.n), b.d)
        g2 == GCD(Abs(b.n), a.d)
    IN  Rat((a.n \div g1) * (b.n \div g2), (a.d \div g2) * (b.d \div g1))

\* x lies exactly half-way between two tenths
IsTie1(x) == (20 * x.n + x.d) % (2 * x.d) = 0

\* round(x, 1): the nearest tenth; at an exact tie the lower tenth, or the
\* upper one when up is set.
Round1(x, up) ==
    LET t == (20 * x.n + x.d) \div (2 * x.d)
    IN  Rat(IF IsTie1(x) /\ ~up THEN t - 1 ELSE t, 10)

----------------------------------------------------------------------------
(* Raw cells of the input file.  A cell is [kind, v]: kind is the lexical  *)
(* form of the text and v the number, day or string it spells.             *)
(*   "empty"   an empty field                                              *)
(*   "token"   one of NA, N/A, null, NULL, None, #N/A, the em-dash         *)
(*   "int"     decimal digits                                              *)
(*   "commas"  decimal digits with thousands separators                    *)
(*   "iso"     a date written yyyy-mm-dd                                   *)
(*   "dmy"     a date written dd/mm/yyyy                                   *)
(*   "text"    any other text;  "nan" is pandas' NaN after read_csv        *)
(*   "id"      a donor key                                                 *)

Raw(kind, v) == [kind |-> kind, v |-> v]

\* the na_values of read_csv
NaKinds == {"empty", "token"}

ReadCell(c) == IF c.kind \in NaKinds THEN [c EXCEPT !.kind = "nan"] ELSE c

\* ReadCsv keeping only the rows without a missing cell
ReadCsvDropNa(file) ==
    [cols |-> file.cols,
     rows |-> SelectSeq([i \in 1..Len(file.rows) |->
                            [k \in DOMAIN file.rows[i] |->
                                ReadCell(file.rows[i][k])]],
                        LAMBDA r : \A k \in DOMAIN r : r[k].kind # "nan")]

\* pd.read_csv("task_1.csv", dtype=str, na_values=[...])
ReadCsv(file) ==
    [cols |-> file.cols,
     rows |-> [i \in 1..Len(file.rows) |->
                 [k \in DOMAIN file.rows[i] |-> ReadCell(file.rows[i][k])]]]

\* read_csv finding every file it is asked for
ReadNeverRaises(exists) == FALSE

\* line 15: pd.read_csv raises FileNotFoundError when task_1.csv is absent
ReadRaises(exists) == ~exists

\* .str.replace(',', '', regex=False)
StripCommas(c) == IF c.kind = "commas" THEN [c EXCEPT !.kind = "int"] ELSE c

\* pd.to_numeric(errors='coerce').astype('Int64')
ToNumeric(c) == IF c.kind = "int" THEN Num(c.v) ELSE NA

\* pd.to_datetime(format=fmt, errors='coerce'); fmt is "iso" or "dmy"
ToDatetime(c, fmt) == IF c.kind = fmt THEN Num(c.v) ELSE NA

\* lines 32-37: the replacements of Industry, whole values only
industry_replace ==
    (<<"t","e","c","h">> :> <<"T","e","c","h","n","o","l","o","g","y">>)
    @@ (<<"t","e","c","h","n","o","l","o","g","y">>
            :> <<"T","e","c","h","n","o","l","o","g","y">>)
    @@ (<<"s","o","f","t","w","a","r","e">>
            :> <<"S","o","f","t","w","a","r","e">>)
    @@ (<<"a","i">> :> <<"A","I">>)

\* lines 31-37; the .str methods and replace leave NaN as it is
NormalizeIndustry(c) ==
    IF c.kind = "nan" THEN c
    ELSE LET low == StrStrip(StrLower(c.v))
         IN  [c EXCEPT !.v = IF low \in DOMAIN industry_replace
                             THEN industry_replace[low] ELSE low]

\* NormalizeGeography replacing the em-dash only
NormalizeGeographyEmOnly(c) ==
    IF c.kind = "nan" THEN c
    ELSE [c EXCEPT !.v = StrStrip(StrReplace(c.v, EmDash, "-"))]

\* lines 62-64
NormalizeGeography(c) ==
    IF c.kind = "nan" THEN c
    ELSE [c EXCEPT !.v = StrStrip(StrReplace(StrReplace(c.v, EmDash, "-"),
                                             EnDash, "-"))]

\* lines 30-38
StandardizeIndustry(t) ==
    IF HasCol(t, "Industry")
    THEN SetCol(t, "Industry",
             [i \in RowIds(t) |-> NormalizeIndustry(t.rows[i]["Industry"])])
    ELSE t

\* lines 41-43
ConvertLifetimeGiving(t) ==
    IF HasCol(t, "Lifetime_Giving")
    THEN SetCol(t, "Lifetime_Giving",
             [i \in RowIds(t) |->
                 ToNumeric(StripCommas(t.rows[i]["Lifetime_Giving"]))])
    ELSE t

\* lines 46-49
ConvertNumeric(t, c) ==
    IF HasCol(t, c)
    THEN SetCol(t, c, [i \in RowIds(t) |-> ToNumeric(t.rows[i][c])])
    ELSE t

\* lines 52-57
ConvertDate(t, c, fmt) ==
    IF HasCol(t, c)
    THEN SetCol(t, c, [i \in RowIds(t) |-> ToDatetime(t.rows[i][c], fmt)])
    ELSE t

\* lines 59-64
StandardizeGeography(t) ==
    IF HasCol(t, "Geography")
    THEN SetCol(t, "Geography",
             [i \in RowIds(t) |-> NormalizeGeography(t.rows[i]["Geography"])])
    ELSE t

\* lines 28-64, in the order of the code
Normalize(t) ==
    StandardizeGeography(
        ConvertDate(
            ConvertDate(
                ConvertNumeric(
                    ConvertNumeric(
                        ConvertLifetimeGiving(StandardizeIndustry(t)),
                        "Giving_Last_24_Months"),
                    "Touchpoints_Last_12_Months"),
                "First_Gift_Date", "iso"),
            "Last_Contact_Date", "dmy"))

----------------------------------------------------------------------------
(* Tenure and annualization, lines 74-91. *)

\* (current_date - date).dt.days
DaysBetween(now, date) == IF date.na THEN NA ELSE Num(now - date.n)

\* line 75: days / 365.25
YearsRaw(days) == IF days.na THEN NA ELSE Rat(4 * days.n, 1461)

\* YearsFloor with the floor applied to missing dates only
YearsFloorMissingOnly(x) == IF x.na THEN Rat(1, 2) ELSE x

\* YearsFloor with a floor of three months
YearsFloorQuarter(x) == IF x.na THEN Rat(1, 2) ELSE RMax(x, Rat(1, 4))

\* line 76: lambda x: max(x, 0.5) if pd.notna(x) else 0.5
YearsFloor(x) == IF x.na THEN Rat(1, 2) ELSE RMax(x, Rat(1, 2))

YearsActive(now, date) == YearsFloor(YearsRaw(DaysBetween(now, date)))

\* (Int64 / float).astype('Int64')
IntDiv(x, y) == IF x.na \/ y.na THEN NA ELSE Num(Trunc(x.n * y.d, y.n * x.d))

\* line 81
AnnualizedLifetimeValue(lifetime, years) == IntDiv(lifetime, years)

\* GivingDenominator as a fixed window of 24 months
GivingDenominatorFixed(years) == Num(2)

\* GivingDenominator as a fixed window of six months
GivingDenominatorHalf(years) == Rat(1, 2)

\* line 88: Years_Active.clip(lower=0.5, upper=2.0)
GivingDenominator(years) == Clip(years, Rat(1, 2), Num(2))

\* line 89
RecentAnnualizedGiving(giving, denominator) == IntDiv(giving, denominator)

\* Tenure computing nothing unless Lifetime_Giving is present too
TenureNeedsBoth(t, now) ==
    IF HasCol(t, "First_Gift_Date") /\ HasCol(t, "Lifetime_Giving")
    THEN LET t1 == SetCol(t, "Years_Active",
                       [i \in RowIds(t) |-> YearsActive(now, t.rows[i]["First_Gift_Date"])])
         IN  SetCol(t1, "Annualized_Lifetime_Value",
                 [i \in RowIds(t1) |-> AnnualizedLifetimeValue(t1.rows[i]["Lifetime_Giving"],
                                                       t1.rows[i]["Years_Active"])])
    ELSE t

Tenure(t, now) ==
    IF HasCol(t, "First_Gift_Date")
    THEN LET t1 == SetCol(t, "Years_Active",
                       [i \in RowIds(t) |-> YearsActive(now, t.rows[i]["First_Gift_Date"])])
         IN  IF HasCol(t1, "Lifetime_Giving")
             THEN SetCol(t1, "Annualized_Lifetime_Value",
                      [i \in RowIds(t1) |-> AnnualizedLifetimeValue(t1.rows[i]["Lifetime_Giving"],
                                                       t1.rows[i]["Years_Active"])])
             ELSE t1
    ELSE t

RecentGivingApplies(t) ==
    HasCol(t, "Giving_Last_24_Months") /\ HasCol(t, "Years_Active")

\* RecentGiving leaving its temporary column in the table
RecentGivingKeepsDenominator(t) ==
    IF RecentGivingApplies(t)
    THEN LET t1 == SetCol(t, "_giving_denominator",
                       [i \in RowIds(t) |-> GivingDenominator(t.rows[i]["Years_Active"])])
         IN  SetCol(t1, "Recent_Annualized_Giving",
                 [i \in RowIds(t1) |-> RecentAnnualizedGiving(
                             t1.rows[i]["Giving_Last_24_Months"],
                             t1.rows[i]["_giving_denominator"])])
    ELSE t

\* lines 86-91
RecentGiving(t) ==
    IF RecentGivingApplies(t)
    THEN LET t1 == SetCol(t, "_giving_denominator",
                       [i \in RowIds(t) |-> GivingDenominator(t.rows[i]["Years_Active"])])
             t2 == SetCol(t1, "Recent_Annualized_Giving",
                       [i \in RowIds(t1) |-> RecentAnnualizedGiving(
                                   t1.rows[i]["Giving_Last_24_Months"],
                                   t1.rows[i]["_giving_denominator"])])
         IN  DropCol(t2, "_giving_denominator")
    ELSE t

----------------------------------------------------------------------------
(* Drift engine, lines 94-115. *)

\* lines 96-97
DriftRatio(recent, lifetime) ==
    IF ~lifetime.na /\ lifetime.n > 0
    THEN IF recent.na THEN NA ELSE Rat(recent.n, lifetime.n)
    ELSE Num(0)

\* categorize_drift with the 1.1 boundary excluded from Accelerating
categorize_drift_strict(ratio) ==
    IF ratio.na THEN "TypeError"
    ELSE IF RLess(Rat(11, 10), ratio) THEN "Accelerating"
    ELSE IF RLeq(Rat(8, 10), ratio) /\ RLess(ratio, Rat(11, 10)) THEN "Stable"
    ELSE IF RLeq(Rat(3, 10), ratio) /\ RLess(ratio, Rat(8, 10)) THEN "Drifting"
    ELSE "High Risk / Dormant"

\* lines 103-111.  Comparing pd.NA yields pd.NA, and `if pd.NA` raises
\* TypeError.
categorize_drift(ratio) ==
    IF ratio.na THEN "TypeError"
    ELSE IF RLeq(Rat(11, 10), ratio) THEN "Accelerating"
    ELSE IF RLeq(Rat(8, 10), ratio) /\ RLess(ratio, Rat(11, 10)) THEN "Stable"
    ELSE IF RLeq(Rat(3, 10), ratio) /\ RLess(ratio, Rat(8, 10)) THEN "Drifting"
    ELSE "High Risk / Dormant"

DriftApplies(t) ==
    RecentGivingApplies(t) /\ HasCol(t, "Annualized_Lifetime_Value")

\* lines 94-100
DriftRatios(t) ==
    IF DriftApplies(t)
    THEN SetCol(t, "Drift_Ratio",
             [i \in RowIds(t) |-> DriftRatio(t.rows[i]["Recent_Annualized_Giving"],
                                      t.rows[i]["Annualized_Lifetime_Value"])])
    ELSE t

\* lines 103-115
DriftStatuses(t) ==
    IF HasCol(t, "Drift_Ratio")
    THEN SetCol(t, "Drift_Status",
             [i \in RowIds(t) |-> categorize_drift(t.rows[i]["Drift_Ratio"])])
    ELSE t

\* the apply of categorize_drift raises on some row
DriftRaises(t) ==
    /\ HasCol(t, "Drift_Ratio")
    /\ \E i \in RowIds(t) : categorize_drift(t.rows[i]["Drift_Ratio"]) = "TypeError"

----------------------------------------------------------------------------
(* Churn risk engine, lines 121-220. *)

\* lines 122-123: .dt.days, then fillna(999)
\* DaysSinceLastContact with fillna(0): a missing date is a contact today
DaysSinceLastContactZero(now, date) ==
    LET days == DaysBetween(now, date)
    IN  IF days.na THEN Num(0) ELSE days

\* lines 121-122
DaysSinceLastContact(now, date) ==
    LET days == DaysBetween(now, date)
    IN  IF days.na THEN Num(999) ELSE days

\* calculate_recency_score without the short-circuit at 999 days
calculate_recency_score_linear(days_since) ==
    IF days_since.na
    THEN Num(0)
    ELSE Round1(RMax(Num(0),
                     RMul(Num(100), RSub(Num(1), Rat(days_since.n, 2190)))),
                FALSE)

\* lines 133-139.  100 * (1 - days/2190) has the odd denominator 219, so
\* it is never half-way between two tenths.
calculate_recency_score(days_since) ==
    IF days_since.na \/ days_since.n >= 999
    THEN Num(0)
    ELSE LET score == RMax(Num(0),
                           RMul(Num(100),
                                RSub(Num(1), Rat(days_since.n, 2190))))
         IN  Round1(score, FALSE)

\* line 147: Touchpoints * (Contact_Recency_Score / 100)
EngagementVelocity(touchpoints, recency) ==
    IF touchpoints.na THEN NA
    ELSE RMul(touchpoints, RMul(recency, Rat(1, 100)))

Recency(t, now) ==
    IF HasCol(t, "Last_Contact_Date")
    THEN LET t1 == SetCol(t, "Days_Since_Last_Contact",
                       [i \in RowIds(t) |-> DaysSinceLastContact(now, t.rows[i]["Last_Contact_Date"])])
             t2 == SetCol(t1, "Contact_Recency_Score",
                       [i \in RowIds(t1) |-> calculate_recency_score(t1.rows[i]["Days_Since_Last_Contact"])])
         IN  IF HasCol(t2, "Touchpoints_Last_12_Months")
             THEN SetCol(t2, "Engagement_Velocity",
                      [i \in RowIds(t2) |-> EngagementVelocity(t2.rows[i]["Touchpoints_Last_12_Months"],
                                                  t2.rows[i]["Contact_Recency_Score"])])
             ELSE t2
    ELSE t

\* line 152
required_cols_risk ==
    {"Contact_Recency_Score", "Drift_Ratio", "Engagement_Velocity",
     "Giving_Last_24_Months", "Recent_Annualized_Giving"}

ChurnApplies(t) == \A c \in required_cols_risk : HasCol(t, c)

\* line 156
RecencyRisk(row) == RSub(Num(100), row["Contact_Recency_Score"])

\* DriftRisk as lines 159-160 assign it: the complement of line 192
DriftRiskInverted(row) ==
    RSub(Num(100),
         IF RLess(Num(0), row["Drift_Ratio"])
         THEN RMin(RMul(row["Drift_Ratio"], Num(100)), Num(100))
         ELSE Num(0))

\* DriftRisk without the cap at 100
DriftRiskUncapped(row) ==
    IF RLess(Num(0), row["Drift_Ratio"])
    THEN RMul(row["Drift_Ratio"], Num(100))
    ELSE Num(0)

\* line 192 (the value assigned at lines 159-160 is overwritten)
DriftRisk(row) ==
    IF RLess(Num(0), row["Drift_Ratio"])
    THEN RMin(RMul(row["Drift_Ratio"], Num(100)), Num(100))
    ELSE Num(0)

\* lines 195-196
EngagementRisk(row) ==
    Clip(RSub(Num(100), RMul(row["Engagement_Velocity"], Num(10))),
         Num(0), Num(100))

\* lines 199-200
GivingRisk(row) ==
    Clip(IF row["Giving_Last_24_Months"].n = 0
         THEN Num(100)
         ELSE RMax(Num(0),
                   RSub(Num(100),
                        RMul(row["Recent_Annualized_Giving"], Rat(1, 1000)))),
         Num(0), Num(100))

\* line 203
ChurnSum(row) ==
    RAdd(RAdd(RMul(RecencyRisk(row), Rat(40, 100)),
              RMul(DriftRisk(row), Rat(30, 100))),
         RAdd(RMul(EngagementRisk(row), Rat(20, 100)),
              RMul(GivingRisk(row), Rat(10, 100))))

\* lines 154-204; up picks the upper tenth when the sum is an exact tie
calculate_churn_risk(row, up) == Round1(ChurnSum(row), up)

\* pd.NA in `row['Drift_Ratio'] > 0`, in min(engagement_risk, 100) or in
\* `row['Giving_Last_24_Months'] == 0` raises TypeError
ChurnRowRaises(row) ==
    \/ row["Drift_Ratio"].na
    \/ row["Engagement_Velocity"].na
    \/ row["Giving_Last_24_Months"].na

\* categorize_churn_risk with the score 70 left in Medium Risk
categorize_churn_risk_strict(score) ==
    IF RLess(Num(70), score) THEN "High Risk"
    ELSE IF RLeq(Num(40), score) THEN "Medium Risk"
    ELSE "Low Risk"

\* lines 211-217
categorize_churn_risk(score) ==
    IF RLeq(Num(70), score) THEN "High Risk"
    ELSE IF RLeq(Num(40), score) THEN "Medium Risk"
    ELSE "Low Risk"

ChurnRaises(t) ==
    ChurnApplies(t) /\ \E i \in RowIds(t) : ChurnRowRaises(t.rows[i])

\* the rounding choices open to a table: one per row, free only at a tie
TieChoices(t) ==
    {ups \in [RowIds(t) -> BOOLEAN] :
        \A i \in RowIds(t) :
            ups[i] => (ChurnApplies(t) /\ IsTie1(ChurnSum(t.rows[i])))}

Churn(t, ups) ==
    IF ChurnApplies(t)
    THEN LET t1 == SetCol(t, "Churn_Risk_Score",
                       [i \in RowIds(t) |-> calculate_churn_risk(t.rows[i], ups[i])])
         IN  SetCol(t1, "Churn_Risk_Category",
                 [i \in RowIds(t1) |-> categorize_churn_risk(t1.rows[i]["Churn_Risk_Score"])])
    ELSE t

----------------------------------------------------------------------------
(* Signal extraction, lines 226-237. *)

risk_keywords ==
    {<<"d","o","r","m","a","n","t">>,
     <<"t","u","r","n","o","v","e","r">>,
     <<"s","l","o","w">>,
     <<"u","n","c","l","e","a","r">>,
     <<"i","n","a","c","t","i","v","e">>,
     <<"q","u","i","e","t","e","r">>}

capacity_keywords ==
    {<<"l","e","g","a","c","y">>,
     <<"h","i","g","h"," ","n","e","t"," ","w","o","r","t","h">>,
     <<"u","p","g","r","a","d","e">>,
     <<"c","o","m","m","i","t","t","e","d">>,
     <<"e","n","t","h","u","s","i","a","s","t","i","c">>,
     <<"e","n","g","a","g","e","d">>}

\* .fillna('')
NotesText(c) == IF c.kind = "nan" THEN <<>> ELSE c.v

\* HasSignal matching the keywords as they are spelled, letter case included
HasSignalCaseSensitive(c, keywords) ==
    IF \E k \in keywords : Contains(NotesText(c), k)
    THEN Num(1) ELSE Num(0)

\* .str.lower().str.contains('|'.join(keywords), case=False).astype(int)
HasSignal(c, keywords) ==
    IF \E k \in keywords : Contains(StrLower(NotesText(c)), k)
    THEN Num(1) ELSE Num(0)

\* Signals writing the filled-in text back into Notes
SignalsFillNotes(t) ==
    IF HasCol(t, "Notes")
    THEN LET t0 == SetCol(t, "Notes",
                       [i \in RowIds(t) |-> Raw("text", NotesText(t.rows[i]["Notes"]))])
             t1 == SetCol(t0, "Has_Risk_Signal",
                       [i \in RowIds(t0) |-> HasSignal(t0.rows[i]["Notes"], risk_keywords)])
         IN  SetCol(t1, "Has_Capacity_Signal",
                 [i \in RowIds(t1) |-> HasSignal(t1.rows[i]["Notes"], capacity_keywords)])
    ELSE t

\* lines 226-237
Signals(t) ==
    IF HasCol(t, "Notes")
    THEN LET t1 == SetCol(t, "Has_Risk_Signal",
                       [i \in RowIds(t) |-> HasSignal(t.rows[i]["Notes"], risk_keywords)])
         IN  SetCol(t1, "Has_Capacity_Signal",
                 [i \in RowIds(t1) |-> HasSignal(t1.rows[i]["Notes"], capacity_keywords)])
    ELSE t

----------------------------------------------------------------------------
(* Export, line 258: to_csv(index=False) writes one text field per cell in  *)
(* the column order of the table.  A missing value of any type is written   *)
(* as the empty field; a date is written yyyy-mm-dd; "decimal" is a number  *)
(* written with a decimal point.                                            *)

\* datetime64 after lines 53 and 57
DateColumns == {"First_Gift_Date", "Last_Contact_Date"}

\* Int64 after lines 43-49, 81 and 89; int after lines 233 and 237
IntegerColumns ==
    {"Lifetime_Giving", "Giving_Last_24_Months", "Touchpoints_Last_12_Months",
     "Annualized_Lifetime_Value", "Recent_Annualized_Giving",
     "Has_Risk_Signal", "Has_Capacity_Signal"}

\* float64 after lines 76, 95, 123, 141, 147 and 206
FloatColumns ==
    {"Years_Active", "Drift_Ratio", "Days_Since_Last_Contact",
     "Contact_Recency_Score", "Engagement_Velocity", "Churn_Risk_Score"}

\* the labels of lines 113 and 219
LabelColumns == {"Drift_Status", "Churn_Risk_Category"}

\* ToCsvCell spelling a missing text out, as to_csv(na_rep='nan') would
ToCsvCellNaRep(c, v) ==
    IF c \in DateColumns
    THEN IF v.na THEN Raw("empty", <<>>) ELSE Raw("iso", v.n)
    ELSE IF c \in IntegerColumns
    THEN IF v.na THEN Raw("empty", <<>>) ELSE Raw("int", v.n)
    ELSE IF c \in FloatColumns
    THEN IF v.na THEN Raw("empty", <<>>) ELSE Raw("decimal", v)
    ELSE IF c \in LabelColumns
    THEN Raw("text", v)
    ELSE IF v.kind = "nan" THEN Raw("text", <<"n","a","n">>)
    ELSE v

\* one field of the line to_csv writes for a row
ToCsvCell(c, v) ==
    IF c \in DateColumns
    THEN IF v.na THEN Raw("empty", <<>>) ELSE Raw("iso", v.n)
    ELSE IF c \in IntegerColumns
    THEN IF v.na THEN Raw("empty", <<>>) ELSE Raw("int", v.n)
    ELSE IF c \in FloatColumns
    THEN IF v.na THEN Raw("empty", <<>>) ELSE Raw("decimal", v)
    ELSE IF c \in LabelColumns
    THEN Raw("text", v)
    ELSE IF v.kind = "nan" THEN Raw("empty", <<>>)
    ELSE IF v.kind = "text" /\ v.v = <<>> THEN Raw("empty", <<>>)
    ELSE v

ToCsv(t) ==
    [cols |-> t.cols,
     rows |-> [i \in RowIds(t) |->
                 [k \in DOMAIN t.rows[i] |-> ToCsvCell(k, t.rows[i][k])]]]

----------------------------------------------------------------------------
(* The consumers of the exported file: load_data of Dashboard.py and of    *)
(* the CPO report, and the selections they make.  A loaded numeric cell is *)
(* a rational, a loaded text cell a string.                                *)

\* Dashboard.py lines 166-170 (the report's list lacks the last one)
numeric_cols ==
    {"Lifetime_Giving", "Giving_Last_24_Months", "Annualized_Lifetime_Value",
     "Recent_Annualized_Giving", "Touchpoints_Last_12_Months",
     "Engagement_Velocity", "Churn_Risk_Score", "Contact_Recency_Score"}

\* Dashboard.py line 176
str_cols ==
    {"Geography", "Industry", "Relationship_Stage", "Churn_Risk_Category",
     "Drift_Status", "Assigned_RM", "Notes"}

\* Dashboard.py line 173: pd.to_numeric(errors='coerce').fillna(0)
LoadNumeric(c) ==
    IF c.kind = "int" THEN Num(c.v)
    ELSE IF c.kind = "decimal" THEN c.v
    ELSE Num(0)

\* Dashboard.py line 179: astype(str).replace('nan', '')
LoadText(c) == IF c.kind = "text" THEN c.v ELSE <<>>

\* Dashboard.py lines 157-181, for the columns the selections read
load_data(file) ==
    [cols |-> file.cols,
     rows |-> [i \in RowIds(file) |->
                 [k \in DOMAIN file.rows[i] |->
                     IF k \in numeric_cols THEN LoadNumeric(file.rows[i][k])
                     ELSE IF k \in str_cols THEN LoadText(file.rows[i][k])
                     ELSE file.rows[i][k]]]]

\* Dashboard.py lines 227-230 and the report's lines 58-61: the rows kept
show_ghosts(t) ==
    {i \in RowIds(t) :
        /\ RLess(Num(500000), t.rows[i]["Lifetime_Giving"])
        /\ t.rows[i]["Giving_Last_24_Months"] = Num(0)}

\* Dashboard.py line 620: the first and the last option
AllGeographies ==
    <<"A","l","l"," ","G","e","o","g","r","a","p","h","i","e","s">>
Other == <<"O","t","h","e","r">>

\* Dashboard.py line 620: the options that name a region
li_geo_options ==
    {<<"U","S"," ",EnDash," ","C","A">>, <<"U","S"," ",EnDash," ","N","Y">>,
     <<"U","K">>, <<"C","a","n","a","d","a">>}

\* Dashboard.py line 629
exclude_geos ==
    {<<"U","S"," ",EnDash," ","C","A">>, <<"U","S"," ",EnDash," ","N","Y">>,
     <<"U","K">>, <<"C","a","n","a","d","a">>}

\* Dashboard.py lines 625-633: the rows kept for the option li_geo
li_filter(t, li_geo) ==
    IF li_geo = AllGeographies THEN RowIds(t)
    ELSE IF li_geo = Other
    THEN {i \in RowIds(t) : t.rows[i]["Geography"] \notin exclude_geos}
    ELSE {i \in RowIds(t) : t.rows[i]["Geography"] = li_geo}

----------------------------------------------------------------------------
(* Input files. *)

\* the columns of the export, in file order
InputColumns ==
    <<"Donor_ID", "Industry", "Geography", "Lifetime_Giving",
      "Giving_Last_24_Months", "Touchpoints_Last_12_Months",
      "First_Gift_Date", "Last_Contact_Date", "Relationship_Stage",
      "Assigned_RM", "Notes">>

\* the same columns in the opposite file order
ReversedColumns ==
    [i \in 1..Len(InputColumns) |-> InputColumns[Len(InputColumns) + 1 - i]]

\* the columns the metrics are computed from; each may be absent from a file
OptionalColumns ==
    {"Lifetime_Giving", "Giving_Last_24_Months", "Touchpoints_Last_12_Months",
     "First_Gift_Date", "Last_Contact_Date", "Notes"}

\* the descriptive columns; each may be absent from a file
TextColumns == {"Industry", "Geography", "Relationship_Stage", "Assigned_RM"}

\* line 21, and the defaults kept by line 22 that are used below
na_values ==
    {<<>>, <<"N","A">>, <<"N","/","A">>, <<"n","u","l","l">>,
     <<"N","U","L","L">>, <<"N","o","n","e">>, <<"#","N","/","A">>,
     <<EmDash>>, <<"N","a","N">>, <<"n","a","n">>, <<"n","/","a">>}

\* the field spelling the text s
Text(s) ==
    Raw(IF s = <<>> THEN "empty" ELSE IF s \in na_values THEN "token"
        ELSE "text", s)

\* the file holding, in the given order, the columns present of the given
\* rows, keyed 1, 2, ...
MkTable(order, present, rs) ==
    [cols |-> SelectSeq(order, LAMBDA c : c = "Donor_ID" \/ c \in present),
     rows |-> [i \in 1..Len(rs) |->
                 [k \in present \cup {"Donor_ID"} |->
                     IF k = "Donor_ID" THEN Raw("id", i) ELSE rs[i][k]]]]

Row(lg, g24, tp, fgd, lcd, notes) ==
    [Lifetime_Giving |-> lg, Giving_Last_24_Months |-> g24,
     Touchpoints_Last_12_Months |-> tp, First_Gift_Date |-> fgd,
     Last_Contact_Date |-> lcd, Notes |-> notes]

\* a row with its descriptive cells
Donor(industry, geography, stage, rm, row) ==
    row @@ [Industry |-> Text(industry), Geography |-> Text(geography),
            Relationship_Stage |-> Text(stage), Assigned_RM |-> Text(rm)]

\* Donors of the pipeline specification: an engaged major donor, a lapsed
\* one never contacted, a large one without recent-giving figure, a prospect
\* with unreadable gift data and a meeting dated five days ahead.
SampleRows ==
    {Donor(<<"T","e","c","h">>, <<"U","S"," ",EnDash," ","C","A">>,
           <<"M","a","j","o","r">>, <<"A","n","a">>,
           Row(Raw("commas", 600000), Raw("int", 400000), Raw("int", 6),
               Raw("iso", -1461), Raw("dmy", -30),
               Text(<<"E","n","g","a","g","e","d">>))),
     Donor(<<"F","i","n","a","n","c","e">>, <<"U","S"," ",EmDash," ","C","A">>,
           <<>>, <<"N","A">>,
           Row(Raw("int", 600000), Raw("int", 0), Raw("int", 0),
               Raw("iso", -2922), Raw("empty", 0),
               Text(<<"d","o","r","m","a","n","t">>))),
     Donor(<<>>, <<EmDash>>, <<"N","e","w">>, <<>>,
           Row(Raw("int", 750000), Raw("empty", 0), Raw("int", 3),
               Raw("iso", -100), Raw("dmy", -1), Text(<<>>))),
     Donor(<<" ","A","I"," ">>, <<" ","U","K"," ">>,
           <<"n","u","l","l">>, <<"B","o">>,
           Row(Raw("token", 0), Raw("int", 300), Raw("token", 0),
               Raw("text", 0), Raw("dmy", 5),
               Text(<<"U","p","g","r","a","d","e">>)))}

\* the sets of descriptive columns a sample file may hold
TextColumnChoices ==
    {TextColumns, {"Geography", "Assigned_RM"}, {"Industry"}, {}}

\* Files of the pipeline specification: every subset of the optional
\* columns for one donor, and all columns, in either order, for up to
\* MaxRows donors.
SampleTables ==
    {MkTable(InputColumns, present \cup text, <<r>>) :
        present \in SUBSET OptionalColumns, text \in TextColumnChoices,
        r \in SampleRows}
    \cup
    {MkTable(order, OptionalColumns \cup TextColumns, rs) :
        order \in {InputColumns, ReversedColumns},
        rs \in UNION {[1..n -> SampleRows] : n \in 1..MaxRows}}

\* Single donors of the row specification: every combination of the cells
\* below, the optional columns all present.
LifetimeCells ==
    {Raw("empty", 0), Raw("text", 0), Raw("int", 0), Raw("int", 800),
     Raw("int", 1000), Raw("commas", 600000)}
GivingCells ==
    {Raw("empty", 0), Raw("commas", 150000), Raw("int", 0), Raw("int", 299),
     Raw("int", 300), Raw("int", 799), Raw("int", 800), Raw("int", 1099),
     Raw("int", 1100), Raw("int", 150000)}
TouchpointCells ==
    {Raw("token", 0), Raw("int", 0), Raw("int", 3), Raw("int", 12)}
FirstGiftCells ==
    {Raw("empty", 0), Raw("dmy", -1461), Raw("iso", 30), Raw("iso", -100),
     Raw("iso", -487), Raw("iso", -1461), Raw("iso", -4383)}
LastContactCells ==
    {Raw("empty", 0), Raw("iso", -30), Raw("dmy", 219), Raw("dmy", 4),
     Raw("dmy", 0), Raw("dmy", -30), Raw("dmy", -998), Raw("dmy", -999),
     Raw("dmy", -2500)}

RowTables ==
    {MkTable(InputColumns, OptionalColumns,
             <<Row(lg, g24, tp, fgd, lcd, Raw("empty", <<>>))>>) :
        lg \in LifetimeCells, g24 \in GivingCells, tp \in TouchpointCells,
        fgd \in FirstGiftCells, lcd \in LastContactCells}

\* Single donors of the text specification: every combination of the
\* descriptive cells below with three kinds of giving history.
IndustryCells ==
    {<<>>, <<"N","A">>, <<"t","e","c","h">>, <<" ","T","E","C","H"," ">>,
     <<"T","e","c","h","n","o","l","o","g","y">>,
     <<"S","o","f","t","w","a","r","e">>, <<"a","i">>, <<"A","I","\t">>,
     <<"F","i","n","a","n","c","e">>, <<"f","i","n","a","n","c","e">>,
     <<"F","i","n"," ","T","e","c","h">>}
GeographyCells ==
    {<<>>, <<EmDash>>, <<"U","S"," ",EnDash," ","C","A">>,
     <<"U","S"," ",EmDash," ","C","A">>, <<"U","S"," ","-"," ","C","A">>,
     <<" ","U","K"," ">>, <<EmDash," ","E","U",EnDash,EmDash>>,
     <<" ",EnDash," ">>, <<" "," ">>, <<"U","K">>}
StageCells == {<<>>, <<"N","o","n","e">>, <<"M","a","j","o","r">>}
ManagerCells == {<<>>, <<"A","n","a">>}
NotesCells ==
    {<<"n","/","a">>, <<"S","l","o","w">>, <<"o","k"," ","U","P","G","R","A","D","E">>,
     <<"q","u","i","e","t","e","r"," ","L","e","g","a","c","y">>,
     <<"s"," ","l","o","w"," ","h","i","g","h","n","e","t">>}
HistoryRows ==
    {Row(Raw("int", 1000), Raw("int", 800), Raw("int", 3),
         Raw("iso", -1461), Raw("dmy", -30), Text(<<>>)),
     Row(Raw("int", 1000), Raw("empty", 0), Raw("int", 3),
         Raw("iso", -1461), Raw("dmy", -30), Text(<<>>)),
     Row(Raw("int", 1000), Raw("int", 800), Raw("token", 0),
         Raw("iso", -1461), Raw("dmy", -30), Text(<<>>))}

TextTables ==
    {MkTable(InputColumns, OptionalColumns \cup TextColumns,
             <<Donor(industry, geography, stage, rm,
                     [row EXCEPT !.Notes = Text(notes)])>>) :
        industry \in IndustryCells, geography \in GeographyCells,
        stage \in StageCells, rm \in ManagerCells, notes \in NotesCells,
        row \in HistoryRows}

----------------------------------------------------------------------------
(* The run: __main__ calls get_data and exports its result. *)

Init ==
    /\ csv \in SampleTables
    /\ file_exists \in BOOLEAN
    /\ pc = "start"
    /\ df = EmptyFrame
    /\ current_date = 0
    /\ clock = 0
    /\ raised = "none"
    /\ out_file = EmptyFrame

TextInit ==
    /\ csv \in TextTables
    /\ file_exists \in BOOLEAN
    /\ pc = "start"
    /\ df = EmptyFrame
    /\ current_date = 0
    /\ clock = 0
    /\ raised = "none"
    /\ out_file = EmptyFrame

RowInit ==
    /\ csv \in RowTables
    /\ file_exists \in BOOLEAN
    /\ pc = "start"
    /\ df = EmptyFrame
    /\ current_date = 0
    /\ clock = 0
    /\ raised = "none"
    /\ out_file = EmptyFrame

\* lines 15-23
Load ==
    /\ pc = "start"
    /\ ~ReadRaises(file_exists)
    /\ df' = ReadCsv(csv)
    /\ pc' = "loaded"
    /\ UNCHANGED <<csv, file_exists, current_date, clock, raised, out_file>>

\* line 15 raises FileNotFoundError; lines 247-249 log it and raise it again
\* to the caller; lines 260-261 log it, nothing is exported
LoadFail ==
    /\ pc = "start"
    /\ ReadRaises(file_exists)
    /\ df' = EmptyFrame
    /\ pc' = "failed"
    /\ raised' = "FileNotFoundError"
    /\ UNCHANGED <<csv, file_exists, current_date, clock, out_file>>

\* lines 28-64
NormalizeTypes ==
    /\ pc = "loaded"
    /\ df' = Normalize(df)
    /\ pc' = "normalized"
    /\ UNCHANGED <<csv, file_exists, current_date, clock, raised, out_file>>

\* line 71: current_date = pd.Timestamp.now()
CaptureNow ==
    /\ pc = "normalized"
    /\ current_date' = clock
    /\ pc' = "dated"
    /\ UNCHANGED <<csv, file_exists, df, clock, raised, out_file>>

\* lines 74-82
TenureStep ==
    /\ pc = "dated"
    /\ df' = Tenure(df, current_date)
    /\ pc' = "tenure"
    /\ UNCHANGED <<csv, file_exists, current_date, clock, raised, out_file>>

\* lines 86-91
RecentGivingStep ==
    /\ pc = "tenure"
    /\ df' = RecentGiving(df)
    /\ pc' = "recent"
    /\ UNCHANGED <<csv, file_exists, current_date, clock, raised, out_file>>

\* lines 94-100
DriftRatioStep ==
    /\ pc = "recent"
    /\ df' = DriftRatios(df)
    /\ pc' = "ratio"
    /\ UNCHANGED <<csv, file_exists, current_date, clock, raised, out_file>>

\* lines 103-115
DriftStatusStep ==
    /\ pc = "ratio"
    /\ ~DriftRaises(df)
    /\ df' = DriftStatuses(df)
    /\ pc' = "drift"
    /\ UNCHANGED <<csv, file_exists, current_date, clock, raised, out_file>>

\* line 113 raises; lines 250-252 and 260-261 log it, nothing is exported
DriftFail ==
    /\ pc = "ratio"
    /\ DriftRaises(df)
    /\ df' = EmptyFrame
    /\ pc' = "failed"
    /\ raised' = "TypeError"
    /\ UNCHANGED <<csv, file_exists, current_date, clock, out_file>>

\* RecencyStep reading the clock again instead of current_date
RecencyStepReadsClock ==
    /\ pc = "drift"
    /\ df' = Recency(df, clock)
    /\ pc' = "recency"
    /\ UNCHANGED <<csv, file_exists, current_date, clock, raised, out_file>>

\* lines 121-148
RecencyStep ==
    /\ pc = "drift"
    /\ df' = Recency(df, current_date)
    /\ pc' = "recency"
    /\ UNCHANGED <<csv, file_exists, current_date, clock, raised, out_file>>

\* lines 152-220
ChurnStep ==
    /\ pc = "recency"
    /\ ~ChurnRaises(df)
    /\ \E ups \in TieChoices(df) : df' = Churn(df, ups)
    /\ pc' = "churn"
    /\ UNCHANGED <<csv, file_exists, current_date, clock, raised, out_file>>

\* line 206 raises; lines 250-252 and 260-261 log it, nothing is exported
ChurnFail ==
    /\ pc = "recency"
    /\ ChurnRaises(df)
    /\ df' = EmptyFrame
    /\ pc' = "failed"
    /\ raised' = "TypeError"
    /\ UNCHANGED <<csv, file_exists, current_date, clock, out_file>>

\* lines 226-237
SignalStep ==
    /\ pc = "churn"
    /\ df' = Signals(df)
    /\ pc' = "signals"
    /\ UNCHANGED <<csv, file_exists, current_date, clock, raised, out_file>>

\* lines 245 and 256-259: return df; df_processed.to_csv(output_file)
Export ==
    /\ pc = "signals"
    /\ out_file' = ToCsv(df)
    /\ pc' = "done"
    /\ UNCHANGED <<csv, file_exists, df, current_date, clock, raised>>

\* a day passes
Tick ==
    /\ clock < MaxClock
    /\ clock' = clock + 1
    /\ UNCHANGED <<csv, file_exists, pc, df, current_date, raised, out_file>>

\* the script is started again on the same input file
Rerun ==
    /\ pc \in {"done", "failed"}
    /\ pc' = "start"
    /\ df' = EmptyFrame
    /\ current_date' = 0
    /\ raised' = "none"
    /\ UNCHANGED <<csv, file_exists, clock, out_file>>

\* between two runs the export is moved away from the working directory
RemoveFile ==
    /\ pc \in {"done", "failed"}
    /\ file_exists
    /\ file_exists' = FALSE
    /\ UNCHANGED <<csv, pc, df, current_date, clock, raised, out_file>>

Run ==
    \/ Load
    \/ LoadFail
    \/ NormalizeTypes
    \/ CaptureNow
    \/ TenureStep
    \/ RecentGivingStep
    \/ DriftRatioStep
    \/ DriftStatusStep
    \/ DriftFail
    \/ RecencyStep
    \/ ChurnStep
    \/ ChurnFail
    \/ SignalStep
    \/ Export

Next == Run \/ Tick \/ Rerun \/ RemoveFile

Spec == Init /\ [][Next]_vars

RowSpec == RowInit /\ [][Run]_vars

TextSpec == TextInit /\ [][Run]_vars

----------------------------------------------------------------------------
(* Properties. *)

\* the lexical forms each column's conversion accepts
ReadableKinds ==
    [Lifetime_Giving |-> {"int", "commas"},
     Giving_Last_24_Months |-> {"int"},
     Touchpoints_Last_12_Months |-> {"int"},
     First_Gift_Date |-> {"iso"},
     Last_Contact_Date |-> {"dmy"}]

\* row i of the input file has a missing or unparseable cell in column c
InputMissing(i, c) ==
    /\ HasCol(csv, c)
    /\ csv.rows[i][c].kind \notin ReadableKinds[c]

NumericInputs ==
    {"Lifetime_Giving", "Giving_Last_24_Months", "Touchpoints_Last_12_Months"}

\* C1: whenever churn_risk_score is computed it lies in [0, 100], for every
\* row, also one whose last contact is dated after `now`.
ChurnScoreWithinScale ==
    HasCol(df, "Churn_Risk_Score") =>
        \A i \in RowIds(df) :
            LET score == df.rows[i]["Churn_Risk_Score"]
            IN  0 <= score.n /\ score.n <= 100 * score.d

\* C2: contact_recency_score lies in [0, 100] for every row: the upper clamp
\* is applied too, so a last contact dated after `now` scores at most 100.
RecencyScoreWithinScale ==
    HasCol(df, "Contact_Recency_Score") =>
        \A i \in RowIds(df) :
            LET score == df.rows[i]["Contact_Recency_Score"]
            IN  0 <= score.n /\ score.n <= 100 * score.d

MissingCellNeverFails ==
    (\E i \in 1..Len(csv.rows) :
        \E c \in DOMAIN ReadableKinds : InputMissing(i, c)) => pc # "failed"

\* C5: a missing numeric cell acts as zero: the derived values of the row
\* are those the row has with the cell set to 0, which are 0 for the value
\* annualized from it and for the engagement velocity.
MissingNumericActsAsZero ==
    \A i \in RowIds(df) :
        /\ (InputMissing(i, "Lifetime_Giving")
            /\ HasCol(df, "Annualized_Lifetime_Value")) =>
               df.rows[i]["Annualized_Lifetime_Value"] = Num(0)
        /\ (InputMissing(i, "Giving_Last_24_Months")
            /\ HasCol(df, "Recent_Annualized_Giving")) =>
               df.rows[i]["Recent_Annualized_Giving"] = Num(0)
        /\ (InputMissing(i, "Touchpoints_Last_12_Months")
            /\ HasCol(df, "Engagement_Velocity")) =>
               df.rows[i]["Engagement_Velocity"] = Num(0)

\* the input columns each derived column depends on
Needs ==
    [Years_Active |-> {"First_Gift_Date"},
     Annualized_Lifetime_Value |-> {"First_Gift_Date", "Lifetime_Giving"},
     Recent_Annualized_Giving |-> {"First_Gift_Date", "Giving_Last_24_Months"},
     Drift_Ratio |->
        {"First_Gift_Date", "Lifetime_Giving", "Giving_Last_24_Months"},
     Drift_Status |->
        {"First_Gift_Date", "Lifetime_Giving", "Giving_Last_24_Months"},
     Days_Since_Last_Contact |-> {"Last_Contact_Date"},
     Contact_Recency_Score |-> {"Last_Contact_Date"},
     Engagement_Velocity |->
        {"Last_Contact_Date", "Touchpoints_Last_12_Months"},
     Churn_Risk_Score |->
        {"First_Gift_Date", "Lifetime_Giving", "Giving_Last_24_Months",
         "Last_Contact_Date", "Touchpoints_Last_12_Months"},
     Churn_Risk_Category |->
        {"First_Gift_Date", "Lifetime_Giving", "Giving_Last_24_Months",
         "Last_Contact_Date", "Touchpoints_Last_12_Months"},
     Has_Risk_Signal |-> {"Notes"},
     Has_Capacity_Signal |-> {"Notes"}]

\* C6: whatever subset of the input columns the file holds, an exported
\* table holds a derived column exactly when the file holds every input
\* column it depends on, and no run fails for want of a column: a failed
\* run has a missing Giving_Last_24_Months or Touchpoints_Last_12_Months
\* cell in a column that is present.
ColumnsFollowInputs ==
    /\ out_file # EmptyFrame =>
           \A c \in DOMAIN Needs :
               HasCol(out_file, c) <=> (\A k \in Needs[c] : HasCol(csv, k))
    /\ (pc = "failed" /\ raised # "FileNotFoundError") =>
           \E i \in 1..Len(csv.rows) :
               \/ InputMissing(i, "Giving_Last_24_Months")
               \/ InputMissing(i, "Touchpoints_Last_12_Months")

TenureWithoutLifetime ==
    /\ pc = "done"
    /\ HasCol(csv, "First_Gift_Date")
    /\ ~HasCol(csv, "Lifetime_Giving")
    /\ HasCol(csv, "Giving_Last_24_Months")
    /\ HasCol(out_file, "Years_Active")
    /\ HasCol(out_file, "Recent_Annualized_Giving")
    /\ ~HasCol(out_file, "Annualized_Lifetime_Value")
    /\ ~HasCol(out_file, "Drift_Ratio")

\* C7: a second run on the same input file writes the output the first run
\* wrote, whenever the two runs are started.
SecondRunSameOutput ==
    [][(pc = "signals" /\ pc' = "done" /\ out_file # EmptyFrame)
           => out_file' = out_file]_vars

\* C8: years_active is max((now - first_gift_date).days / 365.25, 0.5), so
\* at least 0.5, and exactly 0.5 for a first gift date that is missing,
\* unparseable or later than `now`.
YearsActiveFloor ==
    HasCol(df, "Years_Active") =>
        \A i \in RowIds(df) :
            LET years == df.rows[i]["Years_Active"]
                cell == csv.rows[i]["First_Gift_Date"]
                days == current_date - cell.v
            IN  /\ ~years.na
                /\ 2 * years.n >= years.d
                /\ IF cell.kind = "iso" /\ 8 * days >= 1461
                   THEN 1461 * years.n = 4 * days * years.d
                   ELSE 2 * years.n = years.d

FutureFirstGiftFloored ==
    /\ pc = "done"
    /\ csv.rows[1]["First_Gift_Date"].kind = "iso"
    /\ csv.rows[1]["First_Gift_Date"].v > current_date
    /\ df.rows[1]["Years_Active"] = Rat(1, 2)

DriftStatusPartition ==
    HasCol(df, "Drift_Status") =>
        \A i \in RowIds(df) :
            LET ratio == df.rows[i]["Drift_Ratio"]
                status == df.rows[i]["Drift_Status"]
                tenfold == 10 * ratio.n
            IN  /\ ~ratio.na /\ ratio.n >= 0
                /\ status \in {"Accelerating", "Stable", "Drifting",
                               "High Risk / Dormant"}
                /\ status = "Accelerating" <=> tenfold >= 11 * ratio.d
                /\ status = "Stable" <=>
                       (8 * ratio.d <= tenfold /\ tenfold < 11 * ratio.d)
                /\ status = "Drifting" <=>
                       (3 * ratio.d <= tenfold /\ tenfold < 8 * ratio.d)
                /\ status = "High Risk / Dormant" <=> tenfold < 3 * ratio.d

BoundaryRatioAccelerating ==
    /\ pc = "done"
    /\ df.rows[1]["Drift_Ratio"] = Rat(11, 10)
    /\ df.rows[1]["Drift_Status"] = "Accelerating"

----------------------------------------------------------------------------
(* Properties of the categories, the annualization and the output table. *)

\* C11: churn_risk_category is decided by the stored churn_risk_score alone
\* and covers every score: High Risk from 70, Medium Risk on [40, 70), Low
\* Risk below 40; each row has exactly one of the three, in the table and
\* in the file written from it.
ChurnCategoryFollowsScore ==
    /\ HasCol(df, "Churn_Risk_Category") =>
           \A i \in RowIds(df) :
               LET score == df.rows[i]["Churn_Risk_Score"]
                   category == df.rows[i]["Churn_Risk_Category"]
               IN  /\ ~score.na
                   /\ category \in {"High Risk", "Medium Risk", "Low Risk"}
                   /\ category = "High Risk" <=> score.n >= 70 * score.d
                   /\ category = "Medium Risk" <=>
                          (40 * score.d <= score.n /\ score.n < 70 * score.d)
                   /\ category = "Low Risk" <=> score.n < 40 * score.d
    /\ HasCol(out_file, "Churn_Risk_Category") =>
           \A i \in RowIds(out_file) :
               LET score == out_file.rows[i]["Churn_Risk_Score"].v
                   category == out_file.rows[i]["Churn_Risk_Category"].v
               IN  category =
                       IF score.n >= 70 * score.d THEN "High Risk"
                       ELSE IF score.n >= 40 * score.d THEN "Medium Risk"
                       ELSE "Low Risk"

ScoreSeventyIsHighRisk ==
    /\ pc = "done"
    /\ df.rows[1]["Churn_Risk_Score"] = Num(70)
    /\ df.rows[1]["Churn_Risk_Category"] = "High Risk"
    /\ out_file.rows[1]["Churn_Risk_Category"] = Raw("text", "High Risk")

\* row i of the input file gave nothing in the last 24 months, was never
\* contacted, and has a lifetime figure, a first gift date and a touchpoint
\* count the conversions read
GhostDonor(i) ==
    /\ \A c \in DOMAIN ReadableKinds : HasCol(csv, c)
    /\ csv.rows[i]["Giving_Last_24_Months"] = Raw("int", 0)
    /\ InputMissing(i, "Last_Contact_Date")
    /\ ~InputMissing(i, "Lifetime_Giving")
    /\ ~InputMissing(i, "First_Gift_Date")
    /\ ~InputMissing(i, "Touchpoints_Last_12_Months")

\* C12: a row with giving_last_24_months = 0, no last_contact_date and
\* readable lifetime_giving, first_gift_date and touchpoints is scored
\* without failure: recent_annualized_giving 0, drift_ratio 0, drift_status
\* High Risk / Dormant, 999 days, recency score 0, engagement velocity 0,
\* churn_risk_score exactly 70.0 and category High Risk, whatever the
\* lifetime_giving and touchpoint values are.
GhostDonorScoresSeventy ==
    \A i \in 1..Len(csv.rows) :
        GhostDonor(i) =>
            /\ raised # "TypeError"
            /\ pc = "done" =>
                   LET row == df.rows[i]
                   IN  /\ row["Recent_Annualized_Giving"] = Num(0)
                       /\ row["Drift_Ratio"] = Num(0)
                       /\ row["Drift_Status"] = "High Risk / Dormant"
                       /\ row["Days_Since_Last_Contact"] = Num(999)
                       /\ row["Contact_Recency_Score"] = Num(0)
                       /\ row["Engagement_Velocity"] = Num(0)
                       /\ row["Churn_Risk_Score"] = Num(70)
                       /\ row["Churn_Risk_Category"] = "High Risk"

GhostDonorScored ==
    /\ pc = "done"
    /\ GhostDonor(1)
    /\ csv.rows[1]["Lifetime_Giving"].v = 600000
    /\ csv.rows[1]["Touchpoints_Last_12_Months"].v = 12
    /\ df.rows[1]["Churn_Risk_Score"] = Num(70)

\* C13: no division of the pipeline has a zero denominator and no run fails
\* because of one: years_active and the recent-giving denominator are at
\* least 0.5 in every row, and drift_ratio is a quotient by
\* annualized_lifetime_value only where that is present and above zero.
DenominatorsNeverZero ==
    /\ raised # "ZeroDivisionError"
    /\ HasCol(df, "Years_Active") =>
           \A i \in RowIds(df) :
               LET years == df.rows[i]["Years_Active"]
                   denominator == GivingDenominator(years)
               IN  /\ ~years.na /\ 2 * years.n >= years.d
                   /\ ~denominator.na
                   /\ 2 * denominator.n >= denominator.d
    /\ HasCol(df, "Drift_Ratio") =>
           \A i \in RowIds(df) :
               LET lifetime == df.rows[i]["Annualized_Lifetime_Value"]
               IN  df.rows[i]["Drift_Ratio"] # Num(0) =>
                       (~lifetime.na /\ lifetime.n > 0)

ZeroLifetimeValueGuarded ==
    /\ pc = "done"
    /\ csv.rows[1]["First_Gift_Date"] = Raw("iso", -100)
    /\ df.rows[1]["Years_Active"] = Rat(1, 2)
    /\ df.rows[1]["Giving_Last_24_Months"] = Num(800)
    /\ df.rows[1]["Annualized_Lifetime_Value"] = Num(0)
    /\ df.rows[1]["Drift_Ratio"] = Num(0)

\* q is the integer part of x / y, for x >= 0 and y > 0
IsFloorOf(q, x, y) ==
    /\ ~q.na /\ q.d = 1
    /\ q.n * y.n * x.d <= x.n * y.d
    /\ x.n * y.d < (q.n + 1) * y.n * x.d

\* C14: recent_annualized_giving = floor(giving_last_24_months /
\* clip(years_active, 0.5, 2.0)): the divisor is the donor's tenure when
\* years_active is below 2.0 and exactly 2.0 otherwise, while
\* annualized_lifetime_value = floor(lifetime_giving / years_active) with
\* years_active unclipped.
RecentGivingUsesClippedTenure ==
    /\ HasCol(df, "Recent_Annualized_Giving") =>
           \A i \in RowIds(df) :
               LET years == df.rows[i]["Years_Active"]
                   giving == df.rows[i]["Giving_Last_24_Months"]
                   recent == df.rows[i]["Recent_Annualized_Giving"]
               IN  IF giving.na THEN recent.na
                   ELSE IF years.n < 2 * years.d
                   THEN IsFloorOf(recent, giving, years)
                   ELSE IsFloorOf(recent, giving, Num(2))
    /\ HasCol(df, "Annualized_Lifetime_Value") =>
           \A i \in RowIds(df) :
               LET years == df.rows[i]["Years_Active"]
                   lifetime == df.rows[i]["Lifetime_Giving"]
                   value == df.rows[i]["Annualized_Lifetime_Value"]
               IN  IF lifetime.na THEN value.na
                   ELSE IsFloorOf(value, lifetime, years)

ShortTenureAnnualized ==
    /\ pc = "done"
    /\ df.rows[1]["Years_Active"] = Rat(4, 3)
    /\ df.rows[1]["Giving_Last_24_Months"] = Num(800)
    /\ df.rows[1]["Recent_Annualized_Giving"] = Num(600)
    /\ df.rows[1]["Lifetime_Giving"] = Num(1000)
    /\ df.rows[1]["Annualized_Lifetime_Value"] = Num(750)

----------------------------------------------------------------------------
(* Properties of the rows, the columns and the failure of a run. *)

\* the run is past read_csv and has not failed
Loaded == pc \notin {"start", "failed"}

\* C15: the table has exactly one row per input row, in the input order,
\* at every stage and in the file written: no stage, and no missing or
\* malformed cell, drops, duplicates or adds a row.
RowsPreserved ==
    /\ Loaded =>
           /\ Len(df.rows) = Len(csv.rows)
           /\ \A i \in RowIds(df) :
                  df.rows[i]["Donor_ID"] = csv.rows[i]["Donor_ID"]
    /\ out_file # EmptyFrame =>
           /\ Len(out_file.rows) = Len(csv.rows)
           /\ \A i \in RowIds(out_file) :
                  out_file.rows[i]["Donor_ID"] = csv.rows[i]["Donor_ID"]

MalformedRowsExported ==
    /\ pc = "done"
    /\ Len(csv.rows) = 2
    /\ InputMissing(2, "Last_Contact_Date")
    /\ csv.rows[1]["Lifetime_Giving"].kind = "commas"
    /\ Len(out_file.rows) = 2
    /\ out_file.rows[2]["Donor_ID"] = Raw("id", 2)

\* the derived columns in the order of the data model
DerivedColumns ==
    <<"Years_Active", "Annualized_Lifetime_Value", "Recent_Annualized_Giving",
      "Drift_Ratio", "Drift_Status", "Days_Since_Last_Contact",
      "Contact_Recency_Score", "Engagement_Velocity", "Churn_Risk_Score",
      "Churn_Risk_Category", "Has_Risk_Signal", "Has_Capacity_Signal">>

\* C16: the output columns are the input columns in their input order
\* followed by the derived columns that were computed, in the order of
\* DerivedColumns; no other column is in the output, and the temporary
\* _giving_denominator is gone from the table as soon as the stage that
\* made it is over.
OutputColumnOrder ==
    /\ out_file # EmptyFrame =>
           out_file.cols =
               csv.cols \o SelectSeq(DerivedColumns,
                                     LAMBDA c : HasCol(out_file, c))
    /\ ~HasCol(df, "_giving_denominator")
    /\ ~HasCol(out_file, "_giving_denominator")

AllColumnsExported ==
    /\ pc = "done"
    /\ csv.cols = ReversedColumns
    /\ out_file.cols = ReversedColumns \o DerivedColumns

\* C17: a run started while the input file is missing ends in failure with
\* the FileNotFoundError raised to the caller of get_data, and writes no
\* output file: what an earlier run wrote is left as it was.
MissingFileFails ==
    [][(pc = "start" /\ ~file_exists /\ pc' # pc) =>
           /\ pc' = "failed"
           /\ raised' = "FileNotFoundError"
           /\ out_file' = out_file]_vars

MissingFileFailed ==
    /\ pc = "failed"
    /\ ~file_exists
    /\ raised = "FileNotFoundError"
    /\ out_file # EmptyFrame

----------------------------------------------------------------------------
(* Properties of the descriptive columns. *)

\* the type conversions of lines 28-64 are over
Normalized == pc \notin {"start", "loaded", "failed"}

Undash(ch) == IF ch \in {EmDash, EnDash} THEN "-" ELSE ch

\* out is s with every dash replaced by a hyphen and the whitespace at
\* both ends, and nothing else, taken away
IsTrimmedUndashed(out, s) ==
    /\ \A j \in 1..Len(out) : out[j] \notin {EmDash, EnDash}
    /\ out # <<>> =>
           (out[1] \notin Whitespace /\ out[Len(out)] \notin Whitespace)
    /\ \E a \in 0..Len(s) :
           /\ a + Len(out) <= Len(s)
           /\ \A j \in 1..Len(out) : out[j] = Undash(s[a + j])
           /\ \A j \in 1..Len(s) :
                  (j <= a \/ j > a + Len(out)) => s[j] \in Whitespace

\* C18: after normalization every Geography value has no em-dash, no
\* en-dash and no whitespace at either end; it is the input value with each
\* such dash replaced by one hyphen and every other character kept, so
\* "US - CA" for the input written with either dash.
GeographyNormalized ==
    (Normalized /\ HasCol(df, "Geography")) =>
        \A i \in RowIds(df) :
            LET input == csv.rows[i]["Geography"]
                value == df.rows[i]["Geography"]
            IN  IF input.kind \in NaKinds
                THEN value.kind = "nan"
                ELSE /\ value.kind = "text"
                     /\ IsTrimmedUndashed(value.v, input.v)
                     /\ input.v \in {<<"U","S"," ",EnDash," ","C","A">>,
                                     <<"U","S"," ",EmDash," ","C","A">>} =>
                            value.v = <<"U","S"," ","-"," ","C","A">>

EnDashGeographyNormalized ==
    /\ pc = "done"
    /\ csv.rows[1]["Geography"].v = <<"U","S"," ",EnDash," ","C","A">>
    /\ df.rows[1]["Geography"].v = <<"U","S"," ","-"," ","C","A">>
    /\ out_file.rows[1]["Geography"].v = <<"U","S"," ","-"," ","C","A">>

\* C19: Industry becomes the canonical label when the value, lower-cased
\* and trimmed, is a known synonym (tech, technology -> Technology,
\* software -> Software, ai -> AI); every other value is left equal to the
\* input value, letter case included.
IndustryKeepsUnknownValues ==
    (Normalized /\ HasCol(df, "Industry")) =>
        \A i \in RowIds(df) :
            LET input == csv.rows[i]["Industry"]
                value == df.rows[i]["Industry"]
                key == StrStrip(StrLower(input.v))
            IN  input.kind = "text" =>
                    value.v = IF key \in DOMAIN industry_replace
                              THEN industry_replace[key]
                              ELSE input.v

\* the string columns of the data model
StringColumns ==
    {"Industry", "Geography", "Relationship_Stage", "Assigned_RM", "Notes"}

----------------------------------------------------------------------------
(* Properties of the signal flags. *)

\* the text holds the keyword k at some position, whatever the letter case
\* of the text
HoldsKeyword(text, k) ==
    \E a \in 0..Len(text) :
        /\ a + Len(k) <= Len(text)
        /\ \A j \in 1..Len(k) : LowerChar(text[a + j]) = k[j]

\* C21: has_risk_signal is 1 exactly when the notes hold, in any letter
\* case, one of the six risk keywords as a substring, and has_capacity_signal
\* exactly when they hold one of the six capacity keywords; each flag is
\* decided by its own list, and both are 0 for missing notes.
SignalsFollowKeywords ==
    HasCol(df, "Has_Capacity_Signal") =>
        \A i \in RowIds(df) :
            LET notes == csv.rows[i]["Notes"]
                risk == df.rows[i]["Has_Risk_Signal"]
                capacity == df.rows[i]["Has_Capacity_Signal"]
            IN  /\ risk \in {Num(0), Num(1)}
                /\ capacity \in {Num(0), Num(1)}
                /\ risk = Num(1) <=>
                       /\ notes.kind \notin NaKinds
                       /\ \E k \in risk_keywords : HoldsKeyword(notes.v, k)
                /\ capacity = Num(1) <=>
                       /\ notes.kind \notin NaKinds
                       /\ \E k \in capacity_keywords :
                              HoldsKeyword(notes.v, k)

BothSignalsSet ==
    /\ pc = "done"
    /\ csv.rows[1]["Notes"].v =
           <<"q","u","i","e","t","e","r"," ","L","e","g","a","c","y">>
    /\ df.rows[1]["Has_Risk_Signal"] = Num(1)
    /\ df.rows[1]["Has_Capacity_Signal"] = Num(1)
    /\ out_file.rows[1]["Has_Risk_Signal"] = Raw("int", 1)

----------------------------------------------------------------------------
(* Properties of the consumers' selections. *)

\* the exported file holds the two columns the ghost selection reads
GhostColumnsExported ==
    /\ HasCol(out_file, "Lifetime_Giving")
    /\ HasCol(out_file, "Giving_Last_24_Months")

\* C22: the ghost selection of the consumers holds exactly the rows whose
\* exported lifetime_giving is above 500000 and whose exported
\* giving_last_24_months is 0; a row whose giving_last_24_months is missing
\* in the exported file is not selected.
GhostSelectionExact ==
    GhostColumnsExported =>
        show_ghosts(load_data(out_file)) =
            {i \in RowIds(out_file) :
                /\ out_file.rows[i]["Lifetime_Giving"].kind = "int"
                /\ out_file.rows[i]["Lifetime_Giving"].v > 500000
                /\ out_file.rows[i]["Giving_Last_24_Months"].kind = "int"
                /\ out_file.rows[i]["Giving_Last_24_Months"].v = 0}

----------------------------------------------------------------------------
(* Properties of the sub-risks and of the composite score. *)

WithinScale(x) == ~x.na /\ RLeq(Num(0), x) /\ RLeq(x, Num(100))

\* C23: every row whose Last_Contact_Date is null is classified High Risk,
\* whatever its giving and touchpoint values are.
NullContactIsHighRisk ==
    HasCol(df, "Churn_Risk_Category") =>
        \A i \in RowIds(df) :
            df.rows[i]["Last_Contact_Date"].na =>
                df.rows[i]["Churn_Risk_Category"] = "High Risk"

\* C24: in every scored row each of the four sub-risks lies in [0, 100]:
\* recency_risk = 100 - contact_recency_score, drift_risk, engagement_risk
\* and giving_risk (100 when giving_last_24_months = 0, else
\* clamp(100 - recent_annualized_giving / 1000, 0, 100)); the score is
\* their 0.40 / 0.30 / 0.20 / 0.10 weighted sum.
SubRisksWithinScale ==
    HasCol(df, "Churn_Risk_Score") =>
        \A i \in RowIds(df) :
            LET row == df.rows[i]
                recency_risk == RSub(Num(100), row["Contact_Recency_Score"])
                giving_risk ==
                    IF row["Giving_Last_24_Months"] = Num(0) THEN Num(100)
                    ELSE Clip(RSub(Num(100),
                                   RMul(row["Recent_Annualized_Giving"],
                                        Rat(1, 1000))),
                              Num(0), Num(100))
            IN  /\ RecencyRisk(row) = recency_risk
                /\ GivingRisk(row) = giving_risk
                /\ WithinScale(recency_risk)
                /\ WithinScale(DriftRisk(row))
                /\ WithinScale(EngagementRisk(row))
                /\ WithinScale(giving_risk)
                /\ row["Churn_Risk_Score"] \in
                       {Round1(ChurnSum(row), up) : up \in BOOLEAN}

\* the drift ratios the monotonicity of the score is sampled at, ascending
SampleRatios ==
    <<Num(0), Rat(1, 4), Rat(1, 2), Rat(4, 5), Num(1), Rat(11, 10),
      Rat(3, 2), Num(3)>>

\* the points the drift component adds to the score
DriftPoints(ratio) ==
    IF RLess(Num(0), ratio) THEN RMin(RMul(ratio, Num(30)), Num(30))
    ELSE Num(0)

\* C25: the drift_risk entering the composite is min(drift_ratio * 100,
\* 100) when drift_ratio > 0 and 0 otherwise, never its complement: the
\* score is non-decreasing in drift_ratio with the other sub-risks fixed,
\* and an Accelerating row gets the full 30 points.
DriftRiskEntersUninverted ==
    HasCol(df, "Churn_Risk_Score") =>
        \A i \in RowIds(df) :
            LET row == df.rows[i]
                others ==
                    RAdd(RMul(RSub(Num(100), row["Contact_Recency_Score"]),
                              Rat(2, 5)),
                         RAdd(RMul(EngagementRisk(row), Rat(1, 5)),
                              RMul(GivingRisk(row), Rat(1, 10))))
            IN  /\ row["Churn_Risk_Score"] \in
                       {Round1(RAdd(others, DriftPoints(row["Drift_Ratio"])),
                               up) : up \in BOOLEAN}
                /\ row["Drift_Status"] = "Accelerating" =>
                       DriftPoints(row["Drift_Ratio"]) = Num(30)
                /\ \A k \in 1..(Len(SampleRatios) - 1) : \A up \in BOOLEAN :
                       pc = "churn" =>
                       RLeq(calculate_churn_risk(
                                [row EXCEPT !["Drift_Ratio"] = SampleRatios[k]],
                                up),
                            calculate_churn_risk(
                                [row EXCEPT
                                    !["Drift_Ratio"] = SampleRatios[k + 1]],
                                up))

AcceleratingRowFullPoints ==
    /\ pc = "done"
    /\ df.rows[1]["Drift_Status"] = "Accelerating"
    /\ RLess(Num(1), df.rows[1]["Drift_Ratio"])
    /\ DriftRisk(df.rows[1]) = Num(100)
    /\ df.rows[1]["Contact_Recency_Score"] = Num(100)
    /\ df.rows[1]["Churn_Risk_Score"] = Num(30)

\* C27: a row with years_active <= 2.0, annualized_lifetime_value > 0 and
\* giving_last_24_months <= lifetime_giving has drift_ratio <= 1 and is
\* never Accelerating; with giving_last_24_months = lifetime_giving its
\* drift_ratio is exactly 1 and its drift_status Stable.
ShortTenureNeverAccelerates ==
    HasCol(df, "Drift_Status") =>
        \A i \in RowIds(df) :
            LET row == df.rows[i]
            IN  (/\ RLeq(row["Years_Active"], Num(2))
                 /\ ~row["Annualized_Lifetime_Value"].na
                 /\ row["Annualized_Lifetime_Value"].n > 0
                 /\ ~row["Giving_Last_24_Months"].na
                 /\ RLeq(row["Giving_Last_24_Months"], row["Lifetime_Giving"]))
                => /\ RLeq(row["Drift_Ratio"], Num(1))
                   /\ row["Drift_Status"] # "Accelerating"
                   /\ row["Giving_Last_24_Months"] = row["Lifetime_Giving"] =>
                          /\ row["Drift_Ratio"] = Num(1)
                          /\ row["Drift_Status"] = "Stable"

ShortTenureAllGivingRecent ==
    /\ pc = "done"
    /\ df.rows[1]["Years_Active"] = Rat(4, 3)
    /\ df.rows[1]["Lifetime_Giving"] = Num(800)
    /\ df.rows[1]["Giving_Last_24_Months"] = Num(800)
    /\ df.rows[1]["Annualized_Lifetime_Value"] = Num(600)
    /\ df.rows[1]["Drift_Ratio"] = Num(1)
    /\ df.rows[1]["Drift_Status"] = "Stable"

\* C28: a row with a missing last_contact_date and giving and touchpoint
\* values present has recency_risk and engagement_risk 100, so its score
\* is 60 + 0.30 * drift_risk + 0.10 * giving_risk, at least 60, and its
\* category is never Low Risk.
MissingContactScoresSixtyUp ==
    HasCol(df, "Churn_Risk_Score") =>
        \A i \in RowIds(df) :
            LET row == df.rows[i]
            IN  (/\ row["Last_Contact_Date"].na
                 /\ ~row["Giving_Last_24_Months"].na
                 /\ ~row["Touchpoints_Last_12_Months"].na)
                => /\ row["Days_Since_Last_Contact"] = Num(999)
                   /\ RSub(Num(100), row["Contact_Recency_Score"]) = Num(100)
                   /\ EngagementRisk(row) = Num(100)
                   /\ row["Churn_Risk_Score"] \in
                          {Round1(RAdd(Num(60),
                                       RAdd(RMul(DriftRisk(row), Rat(3, 10)),
                                            RMul(GivingRisk(row), Rat(1, 10)))),
                                  up) : up \in BOOLEAN}
                   /\ RLeq(Num(60), row["Churn_Risk_Score"])
                   /\ row["Churn_Risk_Category"] # "Low Risk"

MissingContactMediumRisk ==
    /\ pc = "done"
    /\ df.rows[1]["Last_Contact_Date"].na
    /\ df.rows[1]["Giving_Last_24_Months"] = Num(150000)
    /\ df.rows[1]["Touchpoints_Last_12_Months"] = Num(12)
    /\ df.rows[1]["Drift_Ratio"] = Rat(1, 4)
    /\ df.rows[1]["Churn_Risk_Score"] = Rat(135, 2)
    /\ df.rows[1]["Churn_Risk_Category"] = "Medium Risk"

----------------------------------------------------------------------------
(* Properties of the order of the stages and of what each stage leaves     *)
(* alone.                                                                  *)

\* the columns each derived column is computed from
Reads ==
    [Years_Active |-> {"First_Gift_Date"},
     Annualized_Lifetime_Value |-> {"Lifetime_Giving", "Years_Active"},
     Recent_Annualized_Giving |-> {"Giving_Last_24_Months", "Years_Active"},
     Drift_Ratio |-> {"Recent_Annualized_Giving", "Annualized_Lifetime_Value"},
     Drift_Status |-> {"Drift_Ratio"},
     Days_Since_Last_Contact |-> {"Last_Contact_Date"},
     Contact_Recency_Score |-> {"Days_Since_Last_Contact"},
     Engagement_Velocity |->
        {"Touchpoints_Last_12_Months", "Contact_Recency_Score"},
     Churn_Risk_Score |-> required_cols_risk,
     Churn_Risk_Category |-> {"Churn_Risk_Score"},
     Has_Risk_Signal |-> {"Notes"},
     Has_Capacity_Signal |-> {"Notes"}]

\* the position of a run: normalization is 2, tenure and annualization 4
\* and 5, drift 6 and 7, churn risk 8 and 9, signal extraction 10
StageRank ==
    [start |-> 0, loaded |-> 1, normalized |-> 2, dated |-> 3, tenure |-> 4,
     recent |-> 5, ratio |-> 6, drift |-> 7, recency |-> 8, churn |-> 9,
     signals |-> 10, done |-> 11]

\* the position from which a derived column can be in the table
WrittenAt ==
    [Years_Active |-> 4, Annualized_Lifetime_Value |-> 4,
     Recent_Annualized_Giving |-> 5, Drift_Ratio |-> 6, Drift_Status |-> 7,
     Days_Since_Last_Contact |-> 8, Contact_Recency_Score |-> 8,
     Engagement_Velocity |-> 8, Churn_Risk_Score |-> 9,
     Churn_Risk_Category |-> 9, Has_Risk_Signal |-> 10,
     Has_Capacity_Signal |-> 10]

Position(cols, c) == CHOOSE k \in 1..Len(cols) : cols[k] = c

\* every derived column of the table stands after the columns it reads and
\* is there only from its stage on
ColumnsAfterTheirInputs ==
    \A c \in DOMAIN Reads :
        HasCol(df, c) =>
            /\ pc # "failed"
            /\ StageRank[pc] >= WrittenAt[c]
            /\ \A k \in Reads[c] :
                   /\ HasCol(df, k)
                   /\ Position(df.cols, k) < Position(df.cols, c)

\* both date differences of the table are taken from current_date
OneNowForBothColumns ==
    /\ HasCol(df, "Years_Active") =>
           \A i \in RowIds(df) :
               df.rows[i]["Years_Active"] =
                   YearsActive(current_date, df.rows[i]["First_Gift_Date"])
    /\ HasCol(df, "Days_Since_Last_Contact") =>
           \A i \in RowIds(df) :
               df.rows[i]["Days_Since_Last_Contact"] =
                   DaysSinceLastContact(current_date,
                                        df.rows[i]["Last_Contact_Date"])

\* C26: the stages of a run execute in the order normalization, tenure and
\* annualization, drift, churn risk, signal extraction; a derived column is
\* written only after the columns it reads; `now` is read from the clock
\* once per run, after normalization, and that one value gives both
\* years_active and days_since_last_contact of every row.
StagesInOrderWithOneNow ==
    /\ [](ColumnsAfterTheirInputs /\ OneNowForBothColumns)
    /\ [][pc' # pc =>
              \/ pc' \in {"failed", "start"}
              \/ StageRank[pc'] = StageRank[pc] + 1]_vars
    /\ [][current_date' # current_date =>
              \/ pc = "normalized" /\ current_date' = clock
              \/ pc' = "start"]_vars

DayPassedDuringRun ==
    /\ pc = "done"
    /\ current_date = 0
    /\ clock = 1
    /\ HasCol(df, "Years_Active")
    /\ HasCol(df, "Days_Since_Last_Contact")
    /\ df.rows[1]["Days_Since_Last_Contact"] =
           Num(0 - df.rows[1]["Last_Contact_Date"].n)
    /\ ~df.rows[1]["Last_Contact_Date"].na

\* a step of a run that goes on after normalization keeps the columns of
\* the table in place and every cell of them as it was
StageOnlyAdds ==
    (Normalized /\ pc' \notin {"failed", "start"}) =>
        /\ Len(df'.cols) >= Len(df.cols)
        /\ Len(df'.rows) = Len(df.rows)
        /\ \A k \in 1..Len(df.cols) :
               /\ df'.cols[k] = df.cols[k]
               /\ \A i \in RowIds(df) :
                      df'.rows[i][df.cols[k]] = df.rows[i][df.cols[k]]

\* outside the drift stage the category columns go with their numbers
CategoriesWithTheirNumbers ==
    /\ pc # "ratio" =>
           (HasCol(df, "Drift_Status") <=> HasCol(df, "Drift_Ratio"))
    /\ HasCol(df, "Churn_Risk_Category") <=> HasCol(df, "Churn_Risk_Score")
    /\ HasCol(out_file, "Drift_Status") <=> HasCol(out_file, "Drift_Ratio")
    /\ HasCol(out_file, "Churn_Risk_Category") <=>
           HasCol(out_file, "Churn_Risk_Score")

\* C29: once normalization is over no stage changes a cell of an input
\* column or of a derived column written before: the stages only add
\* columns, the temporary _giving_denominator is gone before the drift
\* ratio is computed, Drift_Status is present exactly when Drift_Ratio is
\* and Churn_Risk_Category exactly when Churn_Risk_Score is.
LaterStagesOnlyAdd ==
    /\ [][StageOnlyAdds]_vars
    /\ [](pc \in {"recent", "ratio"} => ~HasCol(df, "_giving_denominator"))
    /\ []CategoriesWithTheirNumbers

MissingNotesLeftMissing ==
    /\ pc = "done"
    /\ HasCol(df, "Has_Risk_Signal")
    /\ HasCol(df, "Annualized_Lifetime_Value")
    /\ HasCol(df, "Engagement_Velocity")
    /\ \E i \in RowIds(df) : df.rows[i]["Notes"].kind = "nan"

\* the Geography value the pipeline stores for the region an option names
RegionOf(option) == NormalizeGeography(Raw("text", option)).v

\* C30: selecting a named geography option of the Lifetime-Giving-by-
\* Industry filter keeps exactly the exported rows whose Geography is that
\* region, and selecting Other keeps exactly the rows of none of the four
\* regions: the option strings are the values the pipeline produces.
GeographyOptionsMatch ==
    HasCol(out_file, "Geography") =>
        LET t == load_data(out_file)
        IN  /\ \A option \in li_geo_options :
                   li_filter(t, option) =
                       {i \in RowIds(t) :
                           t.rows[i]["Geography"] = RegionOf(option)}
            /\ li_filter(t, Other) =
                   {i \in RowIds(t) :
                       \A option \in li_geo_options :
                           t.rows[i]["Geography"] # RegionOf(option)}

====
